---- MODULE Spec2Model ----
(***************************************************************************)
(* Model of the eBay sold-listings proxy (Comics_Sold_Search).  The        *)
(* repository holds several revisions of the same Express server; the      *)
(* variable rev says which revision is running:                            *)
(*   srv1  src/server.js 1-243        Finding only                         *)
(*   srv2  src/server.js 245-358      token per request, any Browse        *)
(*                                    failure falls through to Finding     *)
(*   srv3  src/server.js 360-662      cached token, fallback on 401/403    *)
(*   p1    src/unnamed/part_001       token per request, Browse only       *)
(*   p2    src/unnamed/part_002       Finding by default, ?mode=browse     *)
(*   p3    src/unnamed/part_003       cached token, _oauth marking,        *)
(*                                    ?mode=finding                        *)
(* A /api/sold request (req) or /api/auth-test request (caller) is a       *)
(* process: it runs from its arrival to its first await, and each upstream *)
(* response resumes it.  req[r] is the r-th request in flight; it keeps    *)
(* the record of an answered request until the next request takes its      *)
(* place.  Time is in milliseconds.                                        *)
(***************************************************************************)
EXTENDS Integers, Sequences, FiniteSets, TLC

VARIABLES rev, EBAY_APP_ID, EBAY_OAUTH_TOKEN, clock, ticks, tokenCache, stored, issued,
          arrived, req, caller,
          backoff, returned,
          pair, digests,
          EBAY_DELETION_VERIFICATION_TOKEN, EBAY_DELETION_ENDPOINT_URL,
          recentDeletionNotifications, seenDeletionIds, posted, hook, listing,
          expired,
          soldCache, sold4, forwarded

\* What /api/sold and /api/auth-test read and write
soldVars == <<rev, EBAY_APP_ID, EBAY_OAUTH_TOKEN, clock, ticks, tokenCache, stored, issued,
              arrived, req, caller>>

\* A call of axiosGetWithBackoff and the calls that have finished
backoffVars == <<backoff, returned>>

\* Two challenges put to the challenge responder and the digests it gave
digestVars == <<pair, digests>>

\* The values /ebay/account-deletion reads from the environment
hookEnv == <<EBAY_DELETION_VERIFICATION_TOKEN, EBAY_DELETION_ENDPOINT_URL>>

\* What /ebay/account-deletion and /api/deletion-notifications read and write
hookVars == <<hookEnv, recentDeletionNotifications, seenDeletionIds, posted, hook, listing>>

\* The number of upstream calls of /api/sold that their timeout has ended
timerVars == <<expired>>

\* soldCache and the /api/sold request of part_004; the limits forwarded
cacheVars == <<soldCache, sold4, forwarded>>

\* What /api/sold and /api/auth-test leave alone
besideSold == <<backoffVars, digestVars, hookVars, cacheVars>>

\* What axiosGetWithBackoff leaves alone
besideBackoff == <<soldVars, digestVars, hookVars, timerVars, cacheVars>>

\* What the challenge responder leaves alone
besideDigest == <<soldVars, backoffVars, hookVars, timerVars, cacheVars>>

\* What /ebay/account-deletion and /api/deletion-notifications leave alone
besideHook == <<soldVars, backoffVars, digestVars, timerVars, cacheVars>>

vars == <<soldVars, backoffVars, digestVars, hookVars, timerVars, cacheVars>>

----------------------------------------------------------------------------
(* Bounds *)

\* /api/sold requests in flight at once, and /api/sold requests in all
MaxInFlight == 1
MaxArrivals == 2
\* /api/auth-test requests
MaxCallers == 3
\* steps of the clock
MaxTicks == 1
\* calls of axiosGetWithBackoff
MaxBackoffCalls == 2
\* length of a challenge code, a verification token, an endpoint URL
MaxLen == 2
\* notifications posted to a revision that keeps the last 50, and to the others
MaxPosts == 51
MaxIdPosts == 2
\* bodies posted to /api/deletion-notifications
MaxLogged == 1
\* limits forwarded one after the other
MaxForwards == 2
\* /api/sold requests to part_004 and steps of its clock
MaxCacheArrivals == 2
MaxCacheTicks == 2

Reqs == 1..MaxInFlight
Callers == 1..MaxCallers

Revs == {"srv1", "srv2", "srv3", "p1", "p2", "p3"}
\* the revisions whose getAppToken keeps tokenCache
CachedRevs == {"srv3", "p3"}
\* the revisions whose /api/sold tries Browse and then Finding
FallbackRevs == {"srv2", "srv3", "p3"}

\* Amounts by which the clock advances between two events (ms).
ClockSteps == {900, 6480000}
\* expires_in values the token endpoint declares (seconds).
ExpiresIns == {0, 1, 7200}

\* ?title= values: absent, empty, whitespace only, a real title
NoTitle == "<missing>"
Titles == {NoTitle, "", " ", "Hulk 181"}

\* ?limit= values: absent, or the text of the parameter
NoLimit == "<missing>"
Limits == {NoLimit, "1", "2", "50"}
\* Numbers of items an upstream may return
Counts == {0, 1, 2}

\* Failed Browse calls: HTTP status and body text
BrowseFailures ==
  { <<401, "">>, <<403, "">>, <<500, "">>, <<500, "invalid_client">>, <<500, "errorId 14010">> }

----------------------------------------------------------------------------
(* Strings *)

\* String(title).trim()
Trim(s) == IF s = " " THEN "" ELSE s

\* ToLowerCase without the case folding
SameCase(s) == s

\* String(mode).toLowerCase(), domain.toLowerCase()
ToLowerCase(s) ==
  CASE s = "FINDING" -> "finding"
    [] s = "Security" -> "security"
    [] OTHER -> s

\* Number(limit): the number a ?limit= text denotes; a text that is not a
\* number gives NaN, which is not in the domain.
Numbers == ("0" :> 0) @@ ("1" :> 1) @@ ("2" :> 2) @@ ("50" :> 50) @@ ("51" :> 51)

\* Number(limit) || dflt, limit = dflt being the default of the destructuring
NumberOr(limit, dflt) ==
  IF limit \in DOMAIN Numbers /\ Numbers[limit] # 0 THEN Numbers[limit] ELSE dflt

\* Math.min(a, b)
Min(a, b) == IF a <= b THEN a ELSE b

\* The page size a revision asks an upstream for: srv1 clamps to 100 with a
\* default of 25, srv3 and p3 clamp to 50 with a default of 10, srv2, p2 and
\* p4 pass the text on (defaults 10, 18 and 18; 0 stands for a text that is
\* not a number), p1 sends none (0).
AskedLimit(rv, limit) ==
  CASE rv = "srv1" -> Min(NumberOr(limit, 25), 100)
    [] rv \in {"srv3", "p3"} -> Min(NumberOr(limit, 10), 50)
    [] rv = "srv2" -> IF limit = NoLimit THEN 10 ELSE NumberOr(limit, 0)
    [] rv \in {"p2", "p4"} -> IF limit = NoLimit THEN 18 ELSE NumberOr(limit, 0)
    [] OTHER -> 0

\* The alternatives of the fallback regexes that occur in a text, case folded
\* (the regexes carry the i flag).
Fragments(s) ==
  CASE s = "invalid_client" -> {"invalid_client"}
    [] s = "errorId 14010" -> {"401"}
    [] OTHER -> {}

\* The alternatives that occur in the decimal form of a status
StatusFragments(st) == IF st = 401 THEN {"401"} ELSE {}

----------------------------------------------------------------------------
(* Upstream answers *)

\* What the token endpoint may answer: a token with a declared lifetime, a
\* rejection, or no answer at all (fetch rejects: network error or timeout).
TokenOutcomes ==
  [kind : {"ok"}, status : {200}, body : {""}, expires_in : ExpiresIns]
    \cup [kind : {"fail"}, status : {401}, body : {"invalid_client"}, expires_in : {0}]
    \cup [kind : {"network"}, status : {0}, body : {""}, expires_in : {0}]

\* What the Browse API may answer; count is the length of itemSummaries.
BrowseAnswers(counts) ==
  [kind : {"ok"}, status : {200}, body : {""}, count : counts]
    \cup { [kind |-> "fail", status |-> f[1], body |-> f[2], count |-> 0] : f \in BrowseFailures }
    \cup [kind : {"network"}, status : {0}, body : {""}, count : {0}]

\* The answers with the result list left empty.
BrowseOutcomes == BrowseAnswers({0})

NoBrowse == [kind |-> "none", status |-> 0, body |-> "", count |-> 0]

\* What the Finding API may answer: HTTP status, whether the body is JSON, the
\* ack of findCompletedItemsResponse[0], its first error message and the
\* length of searchResult[0].item.
FindingAnswers(counts) ==
  { [kind |-> "network", http |-> 0, json |-> FALSE, ack |-> "", msg |-> "", count |-> 0],
    [kind |-> "http", http |-> 200, json |-> TRUE, ack |-> "Failure", msg |-> "Invalid keyword",
     count |-> 0],
    [kind |-> "http", http |-> 500, json |-> TRUE, ack |-> "Failure", msg |-> "Service down",
     count |-> 0],
    [kind |-> "http", http |-> 200, json |-> FALSE, ack |-> "", msg |-> "", count |-> 0] }
    \cup [kind : {"http"}, http : {200}, json : {TRUE}, ack : {"Success"}, msg : {""},
          count : counts]

\* The answers with the result list left empty.
FindingOutcomes == FindingAnswers({0})

NoFinding == [kind |-> "none", http |-> 0, json |-> FALSE, ack |-> "", msg |-> "", count |-> 0]

----------------------------------------------------------------------------
(* Errors and responses *)

\* A message: a fixed text with the status and the text interpolated into it.
Msg(text, status, info) == [text |-> text, status |-> status, info |-> info]

\* A JavaScript Error: status 0 and body "" stand for an absent property.
Error(message) == [status |-> 0, body |-> "", message |-> message, oauth |-> FALSE]

\* What fetch rejects with.
NetworkError == Error(Msg("fetch failed", 0, ""))

\* The regex alternatives that occur in a message.
MsgFragments(m) == StatusFragments(m.status) \cup Fragments(m.info)

NoResp == [status |-> 0, source |-> "none", fields |-> {}, detail |-> Msg("", 0, "")]

\* res.status(status).json(body): the top-level keys of the body, its _source
\* and its detail; sent counts the responses sent for the request.
Respond(q, status, source, fields, detail) ==
  [q EXCEPT !.pc = "done", !.sent = @ + 1,
            !.resp = [status |-> status, source |-> source, fields |-> fields,
                      detail |-> detail]]

\* res.json(result): status 200 and a result list of n items
Result(q, source, fields, n) ==
  [Respond(q, 200, source, fields, Msg("", 0, "")) EXCEPT !.items = n]

\* e.status || 500
StatusOr500(e) == IF e.status # 0 THEN e.status ELSE 500

\* e.body || e.message
BodyOrMessage(e) == IF e.body # "" THEN Msg(e.body, 0, "") ELSE e.message

\* A catch that logs the error and sends nothing
SoldCatchLogOnly(q, e) == [q EXCEPT !.pc = "done"]

\* The outer catch of /api/sold in srv3 and p3.
SoldCatch(q, e) == Respond(q, StatusOr500(e), "none", {"error", "detail"}, BodyOrMessage(e))

\* catch (err) of srv1, srv2 and p2: always 500.
Catch500(q, e) == Respond(q, 500, "none", {"error", "detail"}, e.message)

----------------------------------------------------------------------------
(* getAppToken *)

\* CacheHit without the comparison with expiresAt
CacheHitForever(now) == tokenCache.token # 0

\* tokenCache.token && now < tokenCache.expiresAt
CacheHit(now) == tokenCache.token # 0 /\ now < tokenCache.expiresAt

\* ExpiresAt without the 0.9 margin
ExpiresAtFull(now, expires_in) == now + expires_in * 1000

\* now + (data.expires_in * 1000 * 0.9); exact in doubles for these integers
ExpiresAt(now, expires_in) == now + (expires_in * 1000 * 9) \div 10

\* NewCache with the token replaced and the expiry left as it was
NewTokenOldExpiry(now, token, expires_in) ==
  [token |-> token, expiresAt |-> tokenCache.expiresAt]

\* tokenCache = { token: data.access_token, expiresAt: ... }
NewCache(now, token, expires_in) ==
  [token |-> token, expiresAt |-> ExpiresAt(now, expires_in)]

\* data.access_token: the provider issues a new token at every exchange;
\* issued remembers, per token, which request or caller asked for it.
NewToken == Len(issued) + 1
Issue(by) == Append(issued, by)

\* What the exchange behind the cached token was: the now its caller had
\* captured and the expires_in the provider declared.
Stored(now, expires_in) == [now |-> now, expires_in |-> expires_in]

\* What getAppToken throws when the exchange fails: srv3 throws a plain Error,
\* p3 sets status, body and _oauth, and marks a rejected fetch _oauth as well.
TokenError(rv, o) ==
  LET e == IF o.kind = "network" THEN NetworkError
           ELSE Error(Msg("OAuth failed", o.status, o.body))
  IN IF rv = "p3"
     THEN [e EXCEPT !.status = o.status, !.body = o.body, !.oauth = TRUE]
     ELSE e

----------------------------------------------------------------------------
(* /api/sold *)

IdleReq ==
  [pc |-> "idle", title |-> NoTitle, mode |-> "", limit |-> NoLimit, asked |-> 0, items |-> 0,
   now |-> 0, tok |-> 0,
   calls |-> [token |-> 0, browse |-> 0, finding |-> 0],
   token |-> "none", browse |-> NoBrowse, finding |-> NoFinding, resp |-> NoResp,
   sent |-> 0]

\* const { title = '' } = req.query
TitleOf(t) == IF t = NoTitle THEN "" ELSE t

\* The ?mode= values a revision reads.
ModesOf(rv) ==
  CASE rv = "p2" -> {"", "browse"}
    [] rv = "p3" -> {"", "finding", "FINDING"}
    [] OTHER -> {""}

CallToken(q, now) ==
  [q EXCEPT !.pc = "token_wait", !.now = now, !.calls.token = @ + 1]
CallBrowse(q, tok) ==
  [q EXCEPT !.pc = "browse_wait", !.now = 0, !.tok = tok, !.calls.browse = @ + 1,
            !.asked = AskedLimit(rev, q.limit)]
CallFinding(q) ==
  [q EXCEPT !.pc = "finding_wait", !.calls.finding = @ + 1,
            !.asked = AskedLimit(rev, q.limit)]

\* fetchSoldBrowse up to its first await: getAppToken returns the cached token
\* or starts the exchange.
FetchSoldBrowse(q) ==
  IF CacheHit(clock) THEN CallBrowse(q, tokenCache.token) ELSE CallToken(q, clock)

\* fetchSoldFinding up to its fetch (srv3, p3).
FetchSoldFinding(q) ==
  IF EBAY_APP_ID = ""
  THEN SoldCatch(q, Error(Msg("Finding fallback not configured (missing EBAY_APP_ID).", 0, "")))
  ELSE CallFinding(q)

\* The texts that make a Browse failure an authentication failure.
AuthTexts ==
  {"invalid_client", "client authentication failed", "oauth app token could not be fetched"}

\* IsAuthSrv3 without the test for 401
IsAuthSrv3_No401(err) ==
  err.status = 403 \/ Fragments(err.body) \cap AuthTexts # {}

\* srv3: err.status === 401 || err.status === 403 || /.../i.test(body)
IsAuthSrv3(err) ==
  err.status = 401 \/ err.status = 403 \/ Fragments(err.body) \cap AuthTexts # {}

\* p3: err._oauth || /401|.../i.test(`${err.status} ${err.body} ${err.message}`)
IsAuthP3(err) ==
  err.oauth
    \/ (StatusFragments(err.status) \cup Fragments(err.body) \cup MsgFragments(err.message))
         \cap ({"401"} \cup AuthTexts) # {}

IsAuth(rv, err) == IF rv = "srv3" THEN IsAuthSrv3(err) ELSE IsAuthP3(err)

\* The inner catch of /api/sold in srv3 and p3.
BrowseCatch(q, err) ==
  IF IsAuth(rev, err) THEN FetchSoldFinding(q) ELSE SoldCatch(q, err)

\* !title || String(title).trim().length === 0 (srv3, p3); !title.trim() (p2)
BlankTitle(t) == t = "" \/ Trim(t) = ""

\* !title (srv1, srv2)
NoTitleGiven(t) == t = ""

\* The handler from the arrival of the request to its first await.
SoldStart(q, title, mode) ==
  LET t == TitleOf(title)
      bad == Respond(q, 400, "none", {"error"}, Msg("", 0, ""))
  IN CASE rev = "srv1" ->
            IF NoTitleGiven(t) THEN bad
            ELSE IF EBAY_APP_ID = ""
                 THEN Respond(q, 500, "none", {"error"}, Msg("", 0, ""))
                 ELSE CallFinding(q)
       [] rev = "srv2" -> IF NoTitleGiven(t) THEN bad ELSE CallToken(q, 0)
       [] rev = "srv3" -> IF BlankTitle(t) THEN bad ELSE FetchSoldBrowse(q)
       [] rev = "p1" -> CallToken(q, 0)
       [] rev = "p2" ->
            IF BlankTitle(t) THEN bad
            ELSE IF mode = "browse"
                 THEN IF EBAY_OAUTH_TOKEN = ""
                      THEN Respond(q, 401, "none", {"error"}, Msg("", 0, ""))
                      ELSE CallBrowse(q, 0)
                 ELSE CallFinding(q)
       [] rev = "p3" ->
            IF BlankTitle(t) THEN bad
            ELSE IF ToLowerCase(mode) = "finding" THEN FetchSoldFinding(q)
                 ELSE FetchSoldBrowse(q)

\* What fetchSoldBrowse throws on a failed or unanswered Browse call.
BrowseError(o) ==
  IF o.kind = "network" THEN NetworkError
  ELSE [status |-> o.status, body |-> o.body,
        message |-> Msg("Browse error", o.status, ""), oauth |-> FALSE]

\* The handler resumed by the answer o of the token endpoint; tok is what
\* getAppToken returns when the exchange succeeded.
AfterToken(q, o, tok) ==
  CASE rev \in CachedRevs ->
         IF o.kind = "ok" THEN CallBrowse(q, tok) ELSE BrowseCatch(q, TokenError(rev, o))
    [] rev = "srv2" ->
         IF o.kind = "network" THEN Catch500(q, NetworkError)
         ELSE IF o.kind = "ok" THEN CallBrowse(q, tok) ELSE CallFinding(q)
    [] rev = "p1" ->
         IF o.kind = "ok" THEN CallBrowse(q, tok)
         ELSE Respond(q, 500, "none", {"error"}, TokenError(rev, o).message)

\* The handler resumed by the answer o of the Browse API.
AfterBrowse(q, o) ==
  CASE rev \in CachedRevs ->
         IF o.kind = "ok"
         THEN Result(q, "browse", {"itemSummaries", "_source"}, o.count)
         ELSE BrowseCatch(q, BrowseError(o))
    [] rev = "srv2" ->
         IF o.kind = "network" THEN Catch500(q, NetworkError)
         ELSE IF o.kind = "ok"
              THEN Result(q, "browse", {"items", "_source"}, o.count)
              ELSE CallFinding(q)
    [] rev = "p1" ->
         IF o.kind = "ok" THEN Result(q, "none", {"itemSummaries"}, o.count)
         ELSE IF o.kind = "fail"
              THEN Respond(q, o.status, "none", {"error"}, Msg(o.body, 0, ""))
              ELSE Respond(q, 500, "none", {"error"}, NetworkError.message)
    [] rev = "p2" ->
         IF o.kind = "network" THEN Catch500(q, NetworkError)
         ELSE IF o.kind = "fail"
              THEN Respond(q, o.status, "none", {"upstream"}, Msg(o.body, 0, ""))
              ELSE Result(q, "none", {"itemSummaries"}, o.count)

\* resp?.ack?.[0] of r.json().catch(() => ({}))
AckOf(o) == IF o.json THEN o.ack ELSE ""

\* resp?.errorMessage?.[0]?.error?.[0]?.message?.[0] || 'Unknown error'
MessageOf(o) == IF o.json /\ o.msg # "" THEN o.msg ELSE "Unknown error"

\* What fetchSoldFinding throws when the ack is not Success (srv3, p3).
FindingError(o) ==
  [status |-> 502, body |-> "",
   message |-> Msg("Finding API error", 0, MessageOf(o)), oauth |-> FALSE]

\* The handler resumed by the answer o of the Finding API.
AfterFinding(q, o) ==
  CASE rev \in CachedRevs ->
         IF o.kind = "network" THEN SoldCatch(q, NetworkError)
         ELSE IF AckOf(o) # "Success" THEN SoldCatch(q, FindingError(o))
              ELSE Result(q, "finding", {"itemSummaries", "_source"}, o.count)
    [] rev = "srv1" ->
         IF o.kind = "network" \/ ~o.json THEN Catch500(q, NetworkError)
         ELSE IF o.ack # "Success"
              THEN Respond(q, 502, "none", {"error", "upstream"},
                           Msg("eBay Finding API error", 0, o.msg))
              ELSE Result(q, "finding", {"query", "page", "items", "_source"}, o.count)
    [] rev = "srv2" ->
         IF o.kind = "network" \/ ~o.json THEN Catch500(q, NetworkError)
         ELSE Result(q, "finding", {"items", "_source"}, o.count)
    [] rev = "p2" ->
         IF o.kind = "network" THEN Catch500(q, NetworkError)
         ELSE IF o.http < 200 \/ o.http >= 300
              THEN Respond(q, o.http, "none", {"upstream"}, Msg(o.msg, 0, ""))
              ELSE Result(q, "none", {"itemSummaries"}, o.count)

----------------------------------------------------------------------------
(* /api/auth-test of srv3 and p3: a bare caller of getAppToken *)

IdleCaller == [pc |-> "idle", now |-> 0, tok |-> 0, calls |-> 0, status |-> 0]

\* Handed with the token read from the cache as it was before the exchange
HandedStale(k, cache) ==
  [k EXCEPT !.pc = "done", !.now = 0, !.tok = tokenCache.token, !.status = 200]

\* res.json({ ok: true, tokenPreview }) with the token getAppToken returned
Handed(k, cache) ==
  [k EXCEPT !.pc = "done", !.now = 0, !.tok = cache.token, !.status = 200]

\* The handler up to its first await.
AuthTestStart(k) ==
  IF CacheHit(clock) THEN Handed(k, tokenCache)
  ELSE [k EXCEPT !.pc = "token_wait", !.now = clock, !.calls = @ + 1]

\* The handler resumed by the answer o of the token endpoint; cache is
\* tokenCache as getAppToken leaves it.
AuthTestAfterToken(k, o, cache) ==
  IF o.kind = "ok" THEN Handed(k, cache)
  ELSE [k EXCEPT !.pc = "done", !.now = 0, !.status = 502]

----------------------------------------------------------------------------
(* axiosGetWithBackoff of part_004 *)

\* let delay = 1000
FirstDelay == 1000
\* attempt <= 3
MaxAttempts == 3

\* What axios.get may give for one request: a response (validateStatus accepts
\* every status) whose body may carry errorMessage[0].error[0] with its
\* errorId and domain, or a rejection (network error, timeout of 20000 ms).
AxiosOutcomes ==
  { [kind |-> "resp", status |-> 200, errorId |-> "", domain |-> ""],
    [kind |-> "resp", status |-> 500, errorId |-> "", domain |-> ""],
    [kind |-> "resp", status |-> 500, errorId |-> "10001", domain |-> "Security"],
    [kind |-> "resp", status |-> 200, errorId |-> "10001", domain |-> "Marketplace"],
    [kind |-> "resp", status |-> 200, errorId |-> "10002", domain |-> "security"],
    [kind |-> "reject", status |-> 0, errorId |-> "", domain |-> ""] }

\* code === "10001" && domain.includes("security"), domain lowercased
RateLimited(o) ==
  o.kind = "resp" /\ o.errorId = "10001" /\ ToLowerCase(o.domain) = "security"

NoResult == [kind |-> "none", status |-> 0]

IdleBackoff ==
  [pc |-> "idle", finding |-> FALSE, attempt |-> 0, delay |-> 0, requests |-> 0,
   slept |-> <<>>, got |-> <<>>, result |-> NoResult]

\* The call up to its first axios.get
BackoffStart(finding) ==
  [IdleBackoff EXCEPT !.pc = "get_wait", !.finding = finding, !.attempt = 1,
                      !.delay = FirstDelay, !.requests = 1]

\* return resp / return { status: 429, ... } / the rejection of axios.get
Return(b, kind, status) ==
  [b EXCEPT !.pc = IF kind = "rejected" THEN "thrown" ELSE "returned",
            !.result = [kind |-> kind, status |-> status]]

\* The body of the loop after axios.get has settled with o
BackoffAfterGet(b, o) ==
  IF o.kind = "reject" THEN Return(b, "rejected", 0)
  ELSE IF ~b.finding THEN Return(b, "resp", o.status)
  ELSE IF RateLimited(o)
       THEN IF b.attempt < MaxAttempts THEN [b EXCEPT !.pc = "sleeping"]
            ELSE Return(b, "limited", 429)
       ELSE Return(b, "resp", o.status)

\* delay without the doubling
SameDelay(delay) == delay

\* delay *= 2
Doubled(delay) == delay * 2

\* sleep(delay) is over: delay *= 2; continue; attempt++; the next axios.get
BackoffAfterSleep(b) ==
  [b EXCEPT !.pc = "get_wait", !.slept = Append(@, b.delay), !.delay = Doubled(@),
            !.attempt = @ + 1, !.requests = @ + 1]

\* axiosGetWithBackoff(url, opts, { finding }) is called.
BackoffCall ==
  /\ backoff.pc \in {"idle", "returned", "thrown"}
  /\ Len(returned) < MaxBackoffCalls
  /\ \E finding \in BOOLEAN : backoff' = BackoffStart(finding)
  /\ UNCHANGED <<besideBackoff, returned>>

\* axios.get settles.
AxiosSettles ==
  /\ backoff.pc = "get_wait"
  /\ \E o \in AxiosOutcomes :
       LET cls == IF o.kind = "reject" THEN "reject"
                  ELSE IF RateLimited(o) THEN "limit" ELSE "other"
           b == BackoffAfterGet([backoff EXCEPT !.got = Append(@, cls)], o)
       IN /\ backoff' = b
          /\ returned' = IF b.pc \in {"returned", "thrown"}
                          THEN Append(returned, [finding |-> b.finding,
                                                 requests |-> b.requests,
                                                 result |-> b.result])
                          ELSE returned
  /\ UNCHANGED besideBackoff

\* The timer of sleep(delay) fires.
SleepOver ==
  /\ backoff.pc = "sleeping"
  /\ backoff' = BackoffAfterSleep(backoff)
  /\ UNCHANGED <<besideBackoff, returned>>

NextBackoff == BackoffCall \/ AxiosSettles \/ SleepOver

----------------------------------------------------------------------------
(* The challenge response of /ebay/account-deletion *)

\* The characters of the texts
Chars == {"a", "b"}

\* The non-empty texts of at most n characters
Texts(n) == UNION { [1..k -> Chars] : k \in 1..n }

\* A text as a query or environment value: "" is the empty text
NoText == <<>>

\* String(challengeCode) of a query value that is a string
StringOf(text) == text

\* The two lowercase hexadecimal digits of the code of a character
HexOf(c) == IF c = "a" THEN <<"6", "1">> ELSE <<"6", "2">>

\* h.digest('hex') of a hash fed with text, the hash taken to be injective:
\* the digest stands for the text it was computed from, digit by digit.
RECURSIVE HexDigest(_)
HexDigest(text) ==
  IF text = <<>> THEN <<>> ELSE HexOf(Head(text)) \o HexDigest(Tail(text))

\* The updates of the hash in the order endpoint URL, token, challenge code
UpdatesReversed(code, token, url) == url \o token \o StringOf(code)

\* h.update(String(challengeCode)); h.update(TOKEN); h.update(URL)
Updates(code, token, url) == StringOf(code) \o token \o url

\* const challengeResponse = h.digest('hex')
ChallengeResponse(code, token, url) == HexDigest(Updates(code, token, url))

\* A challenge: the code of the request and the two values of the server
Challenges(n) == [code : Texts(n), token : Texts(n), url : Texts(n)]

\* The inputs that a second challenge may differ in
Inputs == {"code", "token", "url"}

\* The challenge c with its input which replaced by text
Changed(c, which, text) ==
  CASE which = "code" -> [c EXCEPT !.code = text]
    [] which = "token" -> [c EXCEPT !.token = text]
    [] which = "url" -> [c EXCEPT !.url = text]

\* The responder answers the two challenges.
RespondToChallenges ==
  /\ digests = <<>>
  /\ digests' = << ChallengeResponse(pair[1].code, pair[1].token, pair[1].url),
                   ChallengeResponse(pair[2].code, pair[2].token, pair[2].url) >>
  /\ UNCHANGED <<besideDigest, pair>>

\* The responder answers the first challenge once more.
RespondAgain ==
  /\ Len(digests) = 2
  /\ digests' = Append(digests, ChallengeResponse(pair[1].code, pair[1].token, pair[1].url))
  /\ UNCHANGED <<besideDigest, pair>>

NextDigest == RespondToChallenges \/ RespondAgain

----------------------------------------------------------------------------
(* /ebay/account-deletion and /api/deletion-notifications *)

\* The revisions with a /ebay/account-deletion route: those of /api/sold and
\* part_004 (lines 1-237).
HookRevs == Revs \cup {"p4"}
\* The revisions that keep the notifications they receive
KeepingRevs == {"srv3", "p3", "p4"}
\* The revisions with a GET /api/deletion-notifications route
ListingRevs == {"srv3", "p3", "p2", "p4"}

\* if (recentDeletionNotifications.length > 50)
MaxKept == 50

\* ?challenge_code= values, and the challenge field of a posted body
Codes == {NoText, <<"a">>, <<"b">>}
\* notificationId values of a posted body
Ids == {"", "n1", "n2"}

\* The requests a revision tells apart: srv1, srv2, srv3, p1 and p3 read the
\* method and ?challenge_code=, p2 and p4 the method and the body.
HookRequests(rv) ==
  CASE rv \in {"srv1", "srv2", "srv3", "p1", "p3"} ->
         [method : {"GET", "POST"}, code : Codes, challenge : {NoText}, id : {""}]
    [] rv = "p2" -> [method : {"GET", "POST"}, code : {NoText}, challenge : Codes, id : {""}]
    [] rv = "p4" -> [method : {"GET", "POST"}, code : {NoText}, challenge : Codes, id : Ids]

\* PUBLIC_BASE_URL of srv1, left unset
PUBLIC_BASE_URL == NoText

\* srv1: EBAY_DELETION_ENDPOINT_URL || (PUBLIC_BASE_URL ? `${PUBLIC_BASE_URL}${WEBHOOK_PATH}` : '')
WEBHOOK_URL ==
  IF EBAY_DELETION_ENDPOINT_URL # NoText THEN EBAY_DELETION_ENDPOINT_URL
  ELSE IF PUBLIC_BASE_URL # NoText THEN PUBLIC_BASE_URL \o <<"/">> ELSE NoText

\* A response: status, the top-level keys of its JSON body (none for a text
\* body), the status text of part_004, the challengeResponse, and the texts
\* that the body carries in clear.
HookResponse(status, fields, note, digest) ==
  [status |-> status, fields |-> fields, note |-> note, digest |-> digest, echo |-> {}]

\* A response whose body carries texts as they are
Echoing(resp, texts) == [resp EXCEPT !.echo = texts]

\* The answer of express to a request that no route matches
NotFound == HookResponse(404, {}, "", NoText)

\* { challengeResponse } of the revisions that hash
Digested(code, url) ==
  HookResponse(200, {"challengeResponse"}, "",
               ChallengeResponse(code, EBAY_DELETION_VERIFICATION_TOKEN, url))

\* recentDeletionNotifications.shift(): the newest entry goes
Shift(list) == Tail(list)

\* recentDeletionNotifications.pop(): the oldest entry goes
Pop(list) == SubSeq(list, 1, Len(list) - 1)

\* recentDeletionNotifications.unshift(entry); if (length > 50) pop()
Unshift(list, entry) ==
  LET longer == <<entry>> \o list
  IN IF Len(longer) > MaxKept THEN Pop(longer) ELSE longer

\* The entry of the n-th posted notification
Entry(n, id) == [n |-> n, id |-> id]

\* What a request leaves behind: the response, the list and the ids seen
Outcome(resp, list, seen) == [resp |-> resp, list |-> list, seen |-> seen]
Answer(resp) == Outcome(resp, recentDeletionNotifications, seenDeletionIds)

\* app.all(WEBHOOK_PATH) of srv1
HookSrv1(q) ==
  IF q.code # NoText
  THEN IF EBAY_DELETION_VERIFICATION_TOKEN = NoText \/ WEBHOOK_URL = NoText
       THEN Answer(HookResponse(500, {"error", "detail"}, "", NoText))
       ELSE Answer(Digested(q.code, WEBHOOK_URL))
  ELSE IF q.method = "POST" THEN Answer(HookResponse(200, {}, "", NoText))
       ELSE Answer(HookResponse(200, {"ok", "note"}, "", NoText))

\* The challenge branch of srv2, srv3 and p3
HookChallenge(q) ==
  IF EBAY_DELETION_VERIFICATION_TOKEN = NoText \/ EBAY_DELETION_ENDPOINT_URL = NoText
  THEN Answer(HookResponse(500, {"error"}, "", NoText))
  ELSE Answer(Digested(q.code, EBAY_DELETION_ENDPOINT_URL))

\* app.all('/ebay/account-deletion') of srv2
HookSrv2(q) ==
  IF q.code = NoText
  THEN IF q.method = "POST" THEN Answer(HookResponse(200, {"ok"}, "", NoText))
       ELSE Answer(HookResponse(200, {"ok", "note"}, "", NoText))
  ELSE HookChallenge(q)

\* app.all('/ebay/account-deletion') of srv3 and p3
HookSrv3(q) ==
  IF q.method = "POST" /\ q.code = NoText
  THEN Outcome(HookResponse(200, {"ok"}, "", NoText),
               Unshift(recentDeletionNotifications, Entry(posted + 1, q.id)),
               seenDeletionIds)
  ELSE IF q.code # NoText THEN HookChallenge(q)
       ELSE Answer(HookResponse(200, {"ok", "note"}, "", NoText))

\* app.get and app.post('/ebay/account-deletion') of p1
HookP1(q) ==
  IF q.method = "POST" THEN Answer(HookResponse(200, {}, "", NoText))
  ELSE IF q.code = NoText THEN Answer(HookResponse(400, {}, "", NoText))
       ELSE Answer(Echoing(HookResponse(200, {"challengeCode", "verificationToken",
                                              "endpoint"}, "", NoText),
                           {q.code, EBAY_DELETION_VERIFICATION_TOKEN,
                            EBAY_DELETION_ENDPOINT_URL}))

\* app.post('/ebay/account-deletion') of p2
HookP2(q) ==
  IF q.method # "POST" THEN Answer(NotFound)
  ELSE IF /\ q.challenge # NoText /\ EBAY_DELETION_VERIFICATION_TOKEN # NoText
          /\ q.challenge = EBAY_DELETION_VERIFICATION_TOKEN
       THEN Answer(Echoing(HookResponse(200, {"challenge"}, "", NoText),
                           {EBAY_DELETION_VERIFICATION_TOKEN}))
       ELSE Answer(HookResponse(400, {"error"}, "", NoText))

\* IsDuplicate with no id ever taken as seen
NeverDuplicate(id) == FALSE

\* id && seenDeletionIds.has(id), "" standing for the null that
\* metadata.notificationId || notificationId || null gives without an id
IsDuplicate(id) == id # "" /\ id \in seenDeletionIds

\* app.post('/ebay/account-deletion') of p4
HookP4(q) ==
  IF q.method # "POST" THEN Answer(NotFound)
  ELSE IF q.challenge # NoText
       THEN Answer(Echoing(HookResponse(200, {"challenge"}, "", NoText), {q.challenge}))
  ELSE IF IsDuplicate(q.id)
       THEN Answer(HookResponse(200, {"status"}, "duplicate", NoText))
       ELSE Outcome(HookResponse(200, {"status"}, "received", NoText),
                    Append(recentDeletionNotifications, Entry(posted + 1, q.id)),
                    IF q.id # "" THEN seenDeletionIds \cup {q.id} ELSE seenDeletionIds)

HookOf(rv, q) ==
  CASE rv = "srv1" -> HookSrv1(q)
    [] rv = "srv2" -> HookSrv2(q)
    [] rv \in {"srv3", "p3"} -> HookSrv3(q)
    [] rv = "p1" -> HookP1(q)
    [] rv = "p2" -> HookP2(q)
    [] rv = "p4" -> HookP4(q)

NoHook ==
  [method |-> "", code |-> NoText, challenge |-> NoText, id |-> "", n |-> 0,
   resp |-> HookResponse(0, {}, "", NoText)]

NoListing == [status |-> 0, at |-> 0, counted |-> FALSE, count |-> 0, items |-> <<>>]

\* The number of notifications a run follows
PostBound(rv) == IF rv \in {"srv3", "p3"} THEN MaxPosts ELSE MaxIdPosts

\* A notification: a POST without a challenge code in the query or the body
IsNotification(q) == q.method = "POST" /\ q.code = NoText /\ q.challenge = NoText

\* A request to /ebay/account-deletion arrives and is answered; n numbers the
\* notifications in their order of arrival.
AccountDeletion ==
  \E q \in HookRequests(rev) :
    LET out == HookOf(rev, q)
        n == IF IsNotification(q) THEN posted + 1 ELSE 0
    IN /\ IsNotification(q) => posted < PostBound(rev)
       /\ posted' = IF IsNotification(q) THEN posted + 1 ELSE posted
       /\ hook' = [method |-> q.method, code |-> q.code, challenge |-> q.challenge,
                   id |-> q.id, n |-> n, resp |-> out.resp]
       /\ recentDeletionNotifications' = out.list
       /\ seenDeletionIds' = out.seen
       /\ UNCHANGED <<besideHook, hookEnv, listing>>

\* GET /api/deletion-notifications: { count, items } in srv3 and p3, the bare
\* array in p2 and p4, no such route elsewhere.
DeletionNotifications ==
  /\ listing' =
       IF rev \in ListingRevs
       THEN [status |-> 200, at |-> posted, counted |-> rev \in {"srv3", "p3"},
             count |-> IF rev \in {"srv3", "p3"} THEN Len(recentDeletionNotifications) ELSE 0,
             items |-> recentDeletionNotifications]
       ELSE [NoListing EXCEPT !.status = 404, !.at = posted]
  /\ UNCHANGED <<besideHook, hookEnv, recentDeletionNotifications, seenDeletionIds, posted,
                 hook>>

\* POST /api/deletion-notifications of p2 and p4: deletionNotifications (here
\* recentDeletionNotifications) takes the posted body as it is.
PostDeletionNotification ==
  /\ rev \in {"p2", "p4"}
  /\ Cardinality({i \in 1..Len(recentDeletionNotifications) :
                     recentDeletionNotifications[i].n = 0}) < MaxLogged
  /\ recentDeletionNotifications' = Append(recentDeletionNotifications, Entry(0, ""))
  /\ UNCHANGED <<besideHook, hookEnv, seenDeletionIds, posted, hook, listing>>

NextDeletion == AccountDeletion \/ DeletionNotifications \/ PostDeletionNotification

----------------------------------------------------------------------------
(* /api/sold of part_004: soldCache *)

\* const SOLD_CACHE_TTL_MS = 15 * 60 * 1000
SOLD_CACHE_TTL_MS == 900000

\* Steps of Date.now() between two events
CacheSteps == {1, 899999, 900000}

\* ?title=, ?limit= and ?mode= of the requests
Titles4 == {"", "Hulk 181"}
Limits4 == {NoLimit, "18", "2"}
Modes4 == {"", "browse"}

\* String(limit) with the default limit = 18
LimitText(limit) == IF limit = NoLimit THEN "18" ELSE limit

\* `${title}:${limit}:${COMICS_CATEGORY_ID}`, the category being fixed
CacheKey(title, limit) == <<title, LimitText(limit)>>

CacheKeys == {CacheKey(t, l) : t \in Titles4, l \in Limits4}

\* { itemSummaries: items }, with the ack of the response it was built from
Normalized(n, ack) == [itemSummaries |-> n, ack |-> ack]
NoData == Normalized(0, "none")

\* soldCache.get(key) of a key that is not in the Map
NoEntry == [data |-> NoData, expires |-> 0]

\* new Map()
NoCache == [k \in CacheKeys |-> NoEntry]

\* Expired one millisecond late
ExpiredLate(now, hit) == now > hit.expires + 1

\* Date.now() > hit.expires
Expired(now, hit) == now > hit.expires

\* What cacheGet(key) returns: NoData stands for null
CacheGet(cache, key, now) ==
  IF cache[key] = NoEntry \/ Expired(now, cache[key]) THEN NoData ELSE cache[key].data

\* soldCache after cacheGet(key): an expired entry is deleted
AfterCacheGet(cache, key, now) ==
  IF cache[key] # NoEntry /\ Expired(now, cache[key])
  THEN [cache EXCEPT ![key] = NoEntry] ELSE cache

\* cacheSet(key, data)
CacheSet(cache, key, data, now) ==
  [cache EXCEPT ![key] = [data |-> data, expires |-> now + SOLD_CACHE_TTL_MS]]

\* What axios.get may give the /api/sold handler: the outcomes of
\* AxiosOutcomes with the ack of findCompletedItemsResponse[0] and the
\* length of the result list they carry.
Sold4Outcomes ==
  { [kind |-> "resp", status |-> 200, errorId |-> "", domain |-> "", ack |-> "Success",
     count |-> n] : n \in {0, 2} }
    \cup
  { [kind |-> o.kind, status |-> o.status, errorId |-> o.errorId, domain |-> o.domain,
     ack |-> IF o.kind = "resp" THEN "Failure" ELSE "", count |-> 0] :
       o \in {a \in AxiosOutcomes : a.kind = "reject" \/ a.status # 200 \/ a.errorId # ""} }

NoResp4 == [status |-> 0, body |-> "", items |-> 0, served |-> "none"]

\* res.status(status).json(body)
Resp4(status, body, items, served) ==
  [status |-> status, body |-> body, items |-> items, served |-> served]

\* A request: n numbers the arrivals, at is Date.now() at the lookup, found the
\* entry of its key at arrival, gets the number of axios.get calls made for
\* it.
Idle4 ==
  [pc |-> "idle", n |-> 0, title |-> "", limit |-> NoLimit, mode |-> "", at |-> 0,
   found |-> NoEntry, gets |-> 0, resp |-> NoResp4]

Done4(q, resp) == [q EXCEPT !.pc = "done", !.resp = resp]

\* The handler up to its first await
Sold4Start(q, now) ==
  IF Trim(q.title) = "" THEN Done4(q, Resp4(400, "Missing ?title", 0, "none"))
  ELSE IF q.mode = "browse"
       THEN IF EBAY_OAUTH_TOKEN = ""
            THEN Done4(q, Resp4(401, "Missing EBAY_OAUTH_TOKEN for Browse API", 0, "none"))
            ELSE [q EXCEPT !.pc = "wait", !.gets = 1]
       ELSE LET cached == CacheGet(soldCache, CacheKey(q.title, q.limit), now)
            IN IF cached # NoData
               THEN Done4([q EXCEPT !.at = now, !.found = soldCache[CacheKey(q.title, q.limit)]],
                          Resp4(200, "itemSummaries", cached.itemSummaries, "cache"))
               ELSE [q EXCEPT !.pc = "wait", !.gets = 1, !.at = now,
                              !.found = soldCache[CacheKey(q.title, q.limit)]]

\* NotOk with only the 5xx statuses taken as failures
NotOkServer(status) == status >= 500

\* r.status < 200 || r.status >= 300
NotOk(status) == status < 200 \/ status >= 300

\* r?.status || 500
StatusOfR(status) == IF status # 0 THEN status ELSE 500

\* The body sent with an upstream status that is not 2xx: r.data, which is
\* { error: "Rate limited", detail } when axiosGetWithBackoff gave up
ErrorBody(b) == IF b.result.kind = "limited" THEN "Rate limited" ELSE "upstream"

\* The handler resumed by axiosGetWithBackoff, which ended as b after o
Sold4After(q, b, o) ==
  IF b.pc = "thrown" THEN Done4(q, Resp4(500, "Server error", 0, "none"))
  ELSE IF NotOk(b.result.status)
       THEN Done4(q, Resp4(StatusOfR(b.result.status), ErrorBody(b), 0, "none"))
       ELSE Done4(q, Resp4(200, "itemSummaries", o.count, "upstream"))

\* soldCache after the handler resumed: cacheSet(cacheKey, normalized) on the
\* Finding path when the status is 2xx
Sold4Cache(q, b, o, now) ==
  IF b.pc = "returned" /\ ~NotOk(b.result.status) /\ q.mode # "browse"
  THEN CacheSet(soldCache, CacheKey(q.title, q.limit), Normalized(o.count, o.ack), now)
  ELSE soldCache

\* What the /api/sold requests of part_004 leave alone
besideSold4 ==
  <<rev, EBAY_APP_ID, EBAY_OAUTH_TOKEN, tokenCache, stored, issued, arrived, req, caller,
    returned, digestVars, hookVars, timerVars, forwarded>>

\* Date.now() advances.
CacheTick ==
  /\ ticks < MaxCacheTicks
  /\ \E d \in CacheSteps : clock' = clock + d
  /\ ticks' = ticks + 1
  /\ UNCHANGED <<besideSold4, backoff, soldCache, sold4>>

\* GET /api/sold arrives at part_004: validation, cache lookup, first axios.get
Sold4Request ==
  /\ sold4.pc \in {"idle", "done"}
  /\ sold4.n < MaxCacheArrivals
  /\ \E title \in Titles4, limit \in Limits4, mode \in Modes4 :
       LET q == Sold4Start([Idle4 EXCEPT !.n = sold4.n + 1, !.title = title,
                                         !.limit = limit, !.mode = mode], clock)
       IN /\ sold4' = q
          /\ soldCache' = IF Trim(title) # "" /\ mode # "browse"
                           THEN AfterCacheGet(soldCache, CacheKey(title, limit), clock)
                           ELSE soldCache
          /\ backoff' = IF q.pc = "wait" THEN BackoffStart(mode # "browse") ELSE IdleBackoff
  /\ UNCHANGED <<besideSold4, clock, ticks>>

\* axios.get settles for the request in flight; when axiosGetWithBackoff ends
\* with it, the handler resumes in the same turn.
Sold4Settles ==
  /\ sold4.pc = "wait"
  /\ backoff.pc = "get_wait"
  /\ \E o \in Sold4Outcomes :
       LET cls == IF o.kind = "reject" THEN "reject"
                  ELSE IF RateLimited(o) THEN "limit" ELSE "other"
           b == BackoffAfterGet([backoff EXCEPT !.got = Append(@, cls)], o)
       IN /\ backoff' = b
          /\ IF b.pc \in {"returned", "thrown"}
             THEN /\ sold4' = Sold4After(sold4, b, o)
                  /\ soldCache' = Sold4Cache(sold4, b, o, clock)
             ELSE UNCHANGED <<sold4, soldCache>>
  /\ UNCHANGED <<besideSold4, clock, ticks>>

\* The timer of sleep(delay) fires for the request in flight.
Sold4SleepOver ==
  /\ sold4.pc = "wait"
  /\ backoff.pc = "sleeping"
  /\ backoff' = BackoffAfterSleep(backoff)
  /\ sold4' = [sold4 EXCEPT !.gets = @ + 1]
  /\ UNCHANGED <<besideSold4, clock, ticks, soldCache>>

NextSold4 == CacheTick \/ Sold4Request \/ Sold4Settles \/ Sold4SleepOver

----------------------------------------------------------------------------
(* The limit forwarded to an upstream *)

\* ?limit= values around the provider maximum
ClampLimits == {NoLimit, "0", "abc", "1", "50", "51"}

\* The revisions whose forwarded limit is followed
ClampRevs == {"srv3", "p3", "p4"}

\* A request with ?limit= has its page size computed and sent upstream.
ForwardLimit ==
  /\ Len(forwarded) < MaxForwards
  /\ \E limit \in ClampLimits :
       forwarded' = Append(forwarded, [limit |-> limit, asked |-> AskedLimit(rev, limit)])
  /\ UNCHANGED <<soldVars, backoffVars, digestVars, hookVars, timerVars, soldCache, sold4>>

NextClamp == ForwardLimit

----------------------------------------------------------------------------
(* The state machine *)

\* Nothing but /api/sold and /api/auth-test has run.
BackoffIdle ==
  /\ backoff = IdleBackoff
  /\ returned = <<>>

DigestIdle ==
  /\ pair = <<>>
  /\ digests = <<>>

\* No request to /ebay/account-deletion or /api/deletion-notifications yet
HookIdle ==
  /\ recentDeletionNotifications = <<>>
  /\ seenDeletionIds = {}
  /\ posted = 0
  /\ hook = NoHook
  /\ listing = NoListing

\* A server configured for the challenge
HookConfigured ==
  /\ EBAY_DELETION_VERIFICATION_TOKEN = <<"a">>
  /\ EBAY_DELETION_ENDPOINT_URL = <<"b">>

\* No /api/sold request of part_004 yet, no limit forwarded
CacheIdle ==
  /\ soldCache = NoCache
  /\ sold4 = Idle4
  /\ forwarded = <<>>

BesideIdle == BackoffIdle /\ DigestIdle /\ HookConfigured /\ HookIdle /\ CacheIdle

\* No request has arrived.
SoldIdle ==
  /\ clock = 0
  /\ ticks = 0
  /\ tokenCache = [token |-> 0, expiresAt |-> 0]
  /\ stored = Stored(0, 0)
  /\ issued = <<>>
  /\ arrived = 0
  /\ req = [r \in Reqs |-> IdleReq]
  /\ caller = [c \in Callers |-> IdleCaller]
  /\ expired = 0

Init ==
  /\ rev \in Revs
  /\ EBAY_APP_ID \in (IF rev \in {"srv1", "srv3", "p3"} THEN {"", "Comics-PRD-1"}
                      ELSE {"Comics-PRD-1"})
  /\ EBAY_OAUTH_TOKEN \in (IF rev = "p2" THEN {"", "v^1.1#i^1"} ELSE {""})
  /\ BesideIdle
  /\ clock = 0
  /\ ticks = 0
  /\ tokenCache = [token |-> 0, expiresAt |-> 0]
  /\ stored = Stored(0, 0)
  /\ issued = <<>>
  /\ arrived = 0
  /\ req = [r \in Reqs |-> IdleReq]
  /\ caller = [c \in Callers |-> IdleCaller]
  /\ expired = 0

\* Time passes; only srv3 and p3 ever read the clock.
Tick ==
  /\ rev \in CachedRevs
  /\ ticks < MaxTicks
  /\ \E d \in ClockSteps : clock' = clock + d
  /\ ticks' = ticks + 1
  /\ UNCHANGED <<rev, EBAY_APP_ID, EBAY_OAUTH_TOKEN, tokenCache, stored, issued, arrived, req,
                 caller>>
  /\ UNCHANGED <<besideSold, timerVars>>

\* No request is in flight in place r.
Free(r) == req[r].pc \in {"idle", "done"}

\* GET /api/sold arrives with its ?limit= among limits and takes the first
\* free place.
SoldArrival(r, limits) ==
  /\ arrived < MaxArrivals
  /\ Free(r)
  /\ \A p \in Reqs : p < r => ~Free(p)
  /\ arrived' = arrived + 1
  /\ \E title \in Titles, mode \in ModesOf(rev), limit \in limits :
       req' = [req EXCEPT ![r] =
                 SoldStart([IdleReq EXCEPT !.title = title, !.mode = mode, !.limit = limit],
                           title, mode)]
  /\ UNCHANGED <<rev, EBAY_APP_ID, EBAY_OAUTH_TOKEN, clock, ticks, tokenCache, stored, issued,
                 caller>>
  /\ UNCHANGED <<besideSold, timerVars>>

\* GET /api/sold without ?limit=
SoldRequest(r) == SoldArrival(r, {NoLimit})

\* GET /api/sold with any ?limit=
SoldRequestLimit(r) == SoldArrival(r, Limits)

\* The fetch of the token endpoint settles for request r with one of answers.
TokenAnswer(r, answers) ==
  /\ req[r].pc = "token_wait"
  /\ \E o \in answers :
       LET q == [req[r] EXCEPT !.token = o.kind] IN
       LET store == o.kind = "ok" /\ rev \in CachedRevs IN
       /\ issued' = IF o.kind = "ok" THEN Issue(r) ELSE issued
       /\ tokenCache' = IF store THEN NewCache(q.now, NewToken, o.expires_in)
                        ELSE tokenCache
       /\ stored' = IF store THEN Stored(q.now, o.expires_in) ELSE stored
       /\ req' = [req EXCEPT ![r] =
                    AfterToken(q, o, IF rev \in CachedRevs THEN tokenCache'.token
                                     ELSE NewToken)]
  /\ UNCHANGED <<rev, EBAY_APP_ID, EBAY_OAUTH_TOKEN, clock, ticks, arrived, caller>>
  /\ UNCHANGED besideSold

\* The token endpoint answers request r.
TokenResponse(r) == TokenAnswer(r, TokenOutcomes) /\ UNCHANGED timerVars

\* The Browse API answers request r with one of answers.
BrowseAnswer(r, answers) ==
  /\ req[r].pc = "browse_wait"
  /\ \E o \in answers :
       req' = [req EXCEPT ![r] = AfterBrowse([@ EXCEPT !.browse = o], o)]
  /\ UNCHANGED <<rev, EBAY_APP_ID, EBAY_OAUTH_TOKEN, clock, ticks, tokenCache, stored, issued,
                 arrived, caller>>
  /\ UNCHANGED besideSold

BrowseResponse(r) == BrowseAnswer(r, BrowseOutcomes) /\ UNCHANGED timerVars

\* The Browse API answers with a result list of any length.
BrowseItems(r) == BrowseAnswer(r, BrowseAnswers(Counts)) /\ UNCHANGED timerVars

\* The Finding API answers request r with one of answers.
FindingAnswer(r, answers) ==
  /\ req[r].pc = "finding_wait"
  /\ \E o \in answers :
       req' = [req EXCEPT ![r] = AfterFinding([@ EXCEPT !.finding = o], o)]
  /\ UNCHANGED <<rev, EBAY_APP_ID, EBAY_OAUTH_TOKEN, clock, ticks, tokenCache, stored, issued,
                 arrived, caller>>
  /\ UNCHANGED besideSold

FindingResponse(r) == FindingAnswer(r, FindingOutcomes) /\ UNCHANGED timerVars

\* The Finding API answers with a result list of any length.
FindingItems(r) == FindingAnswer(r, FindingAnswers(Counts)) /\ UNCHANGED timerVars

\* The revisions that pass a timeout to their upstream calls: srv3 to
\* node-fetch (15000 ms for the token, 20000 ms for Browse and Finding), p2 to
\* axios (20000 ms). The others pass none, and p3 calls the built-in fetch.
TimeoutRevs == {"srv3", "p2"}

\* A call that timed out rejects as one that failed on the network
TimedOut(answers) == {o \in answers : o.kind = "network"}

\* The timeout of the token call of request r expires.
TokenTimeout(r) ==
  /\ rev \in TimeoutRevs
  /\ TokenAnswer(r, TimedOut(TokenOutcomes))
  /\ expired' = expired + 1

\* The timeout of the Browse call of request r expires.
BrowseTimeout(r) ==
  /\ rev \in TimeoutRevs
  /\ BrowseAnswer(r, TimedOut(BrowseOutcomes))
  /\ expired' = expired + 1

\* The timeout of the Finding call of request r expires.
FindingTimeout(r) ==
  /\ rev \in TimeoutRevs
  /\ FindingAnswer(r, TimedOut(FindingOutcomes))
  /\ expired' = expired + 1

\* GET /api/auth-test arrives.
AuthTestRequest(c) ==
  /\ rev \in CachedRevs
  /\ caller[c].pc = "idle"
  /\ \A p \in Callers : p < c => caller[p].pc # "idle"
  /\ caller' = [caller EXCEPT ![c] = AuthTestStart(@)]
  /\ UNCHANGED <<rev, EBAY_APP_ID, EBAY_OAUTH_TOKEN, clock, ticks, tokenCache, stored, issued,
                 arrived, req>>
  /\ UNCHANGED <<besideSold, timerVars>>

\* The token endpoint answers caller c.
AuthTestTokenResponse(c) ==
  /\ caller[c].pc = "token_wait"
  /\ \E o \in TokenOutcomes :
       /\ issued' = IF o.kind = "ok" THEN Issue(c) ELSE issued
       /\ tokenCache' = IF o.kind = "ok"
                        THEN NewCache(caller[c].now, NewToken, o.expires_in)
                        ELSE tokenCache
       /\ stored' = IF o.kind = "ok" THEN Stored(caller[c].now, o.expires_in) ELSE stored
       /\ caller' = [caller EXCEPT ![c] = AuthTestAfterToken(@, o, tokenCache')]
  /\ UNCHANGED <<rev, EBAY_APP_ID, EBAY_OAUTH_TOKEN, clock, ticks, arrived, req>>
  /\ UNCHANGED <<besideSold, timerVars>>

\* The /api/sold requests of every revision.
Next ==
  \/ Tick
  \/ \E r \in Reqs : SoldRequest(r)
  \/ \E r \in Reqs : TokenResponse(r)
  \/ \E r \in Reqs : BrowseResponse(r)
  \/ \E r \in Reqs : FindingResponse(r)

Spec == Init /\ [][Next]_vars

\* Concurrent callers of getAppToken in the revisions that cache the token.
InitToken == Init /\ rev \in CachedRevs /\ EBAY_APP_ID # ""

NextToken ==
  \/ Tick
  \/ \E c \in Callers : AuthTestRequest(c)
  \/ \E c \in Callers : AuthTestTokenResponse(c)

SpecToken == InitToken /\ [][NextToken]_vars

\* /api/sold with ?limit= and result lists of any length, in the revisions
\* that clamp the limit to 50.
InitLimit == Init /\ rev \in CachedRevs /\ EBAY_APP_ID # ""

NextLimit ==
  \/ \E r \in Reqs : SoldRequestLimit(r)
  \/ \E r \in Reqs : TokenResponse(r)
  \/ \E r \in Reqs : BrowseItems(r)
  \/ \E r \in Reqs : FindingItems(r)

SpecLimit == InitLimit /\ [][NextLimit]_vars

\* /api/sold with upstreams that answer when they like or never: a response
\* is never forced, a timeout that the code has set expires if the call is
\* still pending.
NextLive ==
  \/ \E r \in Reqs : SoldRequest(r)
  \/ \E r \in Reqs : TokenResponse(r)
  \/ \E r \in Reqs : BrowseResponse(r)
  \/ \E r \in Reqs : FindingResponse(r)
  \/ \E r \in Reqs : TokenTimeout(r)
  \/ \E r \in Reqs : BrowseTimeout(r)
  \/ \E r \in Reqs : FindingTimeout(r)

Timers ==
  \A r \in Reqs :
    /\ WF_vars(TokenTimeout(r))
    /\ WF_vars(BrowseTimeout(r))
    /\ WF_vars(FindingTimeout(r))

SpecLive == Init /\ [][NextLive]_vars /\ Timers

\* axiosGetWithBackoff of part_004, called again and again.
InitBackoff ==
  /\ rev = "p4"
  /\ EBAY_APP_ID = "Comics-PRD-1"
  /\ EBAY_OAUTH_TOKEN = "v^1.1#i^1"
  /\ SoldIdle
  /\ BesideIdle

SpecBackoff == InitBackoff /\ [][NextBackoff]_vars

\* The challenge responder applied to a challenge and to one that differs
\* from it in at most one input.
InitDigest ==
  /\ rev \in {"srv3", "p3"}
  /\ EBAY_APP_ID = "Comics-PRD-1"
  /\ EBAY_OAUTH_TOKEN = ""
  /\ SoldIdle
  /\ BackoffIdle
  /\ HookConfigured
  /\ HookIdle
  /\ CacheIdle
  /\ digests = <<>>
  /\ \E c \in Challenges(MaxLen), which \in Inputs, text \in Texts(MaxLen) :
       pair = <<c, Changed(c, which, text)>>

SpecDigest == InitDigest /\ [][NextDigest]_vars

\* /ebay/account-deletion and /api/deletion-notifications of every revision,
\* with and without the two environment values.
InitDeletion ==
  /\ rev \in HookRevs
  /\ EBAY_APP_ID = "Comics-PRD-1"
  /\ EBAY_OAUTH_TOKEN = ""
  /\ SoldIdle
  /\ BackoffIdle
  /\ DigestIdle
  /\ EBAY_DELETION_VERIFICATION_TOKEN \in {NoText, <<"a">>}
  /\ EBAY_DELETION_ENDPOINT_URL \in {NoText, <<"b">>}
  /\ HookIdle
  /\ CacheIdle

SpecDeletion == InitDeletion /\ [][NextDeletion]_vars

\* /api/sold of part_004 with its cache and its backoff
InitSold4 ==
  /\ rev = "p4"
  /\ EBAY_APP_ID = "Comics-PRD-1"
  /\ EBAY_OAUTH_TOKEN \in {"", "v^1.1#i^1"}
  /\ SoldIdle
  /\ BesideIdle

SpecSold4 == InitSold4 /\ [][NextSold4]_vars

\* The page size of the revisions that forward ?limit=
InitClamp ==
  /\ rev \in ClampRevs
  /\ EBAY_APP_ID = "Comics-PRD-1"
  /\ EBAY_OAUTH_TOKEN = ""
  /\ SoldIdle
  /\ BesideIdle

SpecClamp == InitClamp /\ [][NextClamp]_vars

----------------------------------------------------------------------------
(* Claims *)

Answered(q) == q.pc = "done"
BrowseFailed(q, st) == q.browse.kind = "fail" /\ q.browse.status = st
TokenFailed(q) == q.token \in {"fail", "network"}
\* Caller c is handed a token in this step.
Hands(c) == caller[c].pc # "done" /\ caller'[c].pc = "done" /\ caller'[c].status = 200
\* Caller c enters getAppToken in this step.
Enters(c) == caller[c].pc = "idle" /\ caller'[c].pc # "idle"
Exchanging == {c \in Callers : caller[c].pc = "token_wait"}

\* C1: whenever getAppToken hands a token to a caller, on the cache-hit path
\* and on the fresh-exchange path alike, the current time is strictly before
\* the expiresAt recorded for that token.
C1_HandedBeforeExpiry ==
  [][\A c \in Callers :
       Hands(c) => /\ caller'[c].tok = tokenCache'.token
                   /\ clock' < tokenCache'.expiresAt]_vars

\* C2: in the revisions with a fallback, a request whose Browse call failed
\* with 401 goes on to Finding (when the application key is configured), and
\* a Success acknowledgement of Finding is answered 200 with _source
\* 'finding' and no error.
C2_Fallback401 ==
  \A r \in Reqs :
    (rev \in FallbackRevs /\ EBAY_APP_ID # "" /\ Answered(req[r]) /\ BrowseFailed(req[r], 401))
      => /\ req[r].finding.kind # "none"
         /\ AckOf(req[r].finding) = "Success"
              => /\ req[r].resp.status = 200
                 /\ req[r].resp.source = "finding"
                 /\ "error" \notin req[r].resp.fields

C2_Witness ==
  \E r \in Reqs :
    /\ rev \in {"srv3", "p3"} /\ Answered(req[r]) /\ BrowseFailed(req[r], 401)
    /\ AckOf(req[r].finding) = "Success" /\ req[r].resp.source = "finding"

\* C3: in the revisions with a fallback, a Browse failure that is not of the
\* authentication class (status other than 401 and 403, no invalid-client
\* text in the body) is propagated with its status and Finding is not called.
C3_NonAuthPropagates ==
  \A r \in Reqs :
    (/\ rev \in FallbackRevs
     /\ req[r].browse.kind = "fail"
     /\ req[r].browse.status \notin {401, 403}
     /\ Fragments(req[r].browse.body) \cap AuthTexts = {})
      => /\ req[r].calls.finding = 0
         /\ Answered(req[r]) /\ req[r].resp.status = req[r].browse.status

\* C4: in srv3 and p3, a request whose Browse call failed with 403 goes on to
\* Finding, as it does for 401.
C4_Fallback403 ==
  \A r \in Reqs :
    (rev \in CachedRevs /\ EBAY_APP_ID # "" /\ BrowseFailed(req[r], 403))
      => req[r].calls.finding = 1

\* C5: in srv1, srv3 and p3, a request whose title is missing, empty or
\* whitespace only is answered 400 and starts no exchange and no upstream call.
C5_BlankTitleRejected ==
  \A r \in Reqs :
    (rev \in {"srv1", "srv3", "p3"} /\ req[r].pc # "idle" /\ Trim(TitleOf(req[r].title)) = "")
      => /\ Answered(req[r]) /\ req[r].resp.status = 400
         /\ req[r].calls = [token |-> 0, browse |-> 0, finding |-> 0]

\* C6: in srv3 and p1, tokens are cached across requests: once an exchange has
\* succeeded tokenCache holds a token; a request that finds the cached token
\* unexpired uses it and starts no exchange; an exchange is started only when
\* no token is cached or the cached one has expired.
C6_TokensCached ==
  /\ [](rev \in {"srv3", "p1"} /\ issued # <<>> => tokenCache.token # 0)
  /\ [][\A r \in Reqs :
          (rev \in {"srv3", "p1"} /\ Free(r) /\ ~Free(r)')
            => /\ CacheHit(clock) => req'[r].calls.token = 0 /\ req'[r].tok = tokenCache.token
               /\ req'[r].calls.token = 1
                    => tokenCache.token = 0 \/ clock >= tokenCache.expiresAt]_vars

\* C7: the expiry stored with a token is the now its caller captured plus 90%
\* of expires_in seconds; a getAppToken call made 6480 s or more after the
\* acquisition of a token of lifetime 7200 s starts a fresh exchange.
C7_ExpiryAt90Percent ==
  /\ [](tokenCache.token # 0
          => 10 * (tokenCache.expiresAt - stored.now) = 9 * 1000 * stored.expires_in)
  /\ [][\A c \in Callers :
          (/\ Enters(c) /\ tokenCache.token # 0 /\ stored.expires_in = 7200
           /\ clock >= stored.now + 6480 * 1000)
            => caller'[c].pc = "token_wait" /\ caller'[c].calls = 1]_vars

C7_Witness ==
  \E c \in Callers :
    /\ caller[c].pc = "token_wait" /\ tokenCache.token # 0 /\ stored.expires_in = 7200
    /\ caller[c].now = stored.now + 6480 * 1000

\* C8 as stated: a race makes at most one duplicate exchange, so at most two
\* exchanges are under way at once.
C8_AtMostOneDuplicate == Cardinality(Exchanging) <= 2

\* C8 amended: every racer makes exactly one exchange of its own (k racers,
\* up to k - 1 duplicates), and a racer whose exchange succeeds is handed the
\* token that its own exchange issued.
C8_OneExchangePerRacer ==
  /\ \A c \in Callers :
       /\ caller[c].calls <= 1
       /\ (caller[c].pc = "done" /\ caller[c].calls = 1 /\ caller[c].status = 200)
            => caller[c].tok \in 1..Len(issued) /\ issued[caller[c].tok] = c
  /\ Len(issued) <= Cardinality({c \in Callers : caller[c].calls = 1})

C8_Witness ==
  Cardinality({c \in Callers : /\ caller[c].pc = "done" /\ caller[c].calls = 1
                                /\ caller[c].status = 200}) >= 3

\* C9: in srv3 and p3, a request whose credential exchange was rejected or
\* got no answer falls back to Finding or is answered 502.
C9_TokenFailure502OrFallback ==
  \A r \in Reqs :
    (rev \in CachedRevs /\ EBAY_APP_ID # "" /\ TokenFailed(req[r]) /\ Answered(req[r]))
      => req[r].calls.finding = 1 \/ req[r].resp.status = 502

\* C10: in srv3, p3 and p2, a Finding answer whose ack is not Success is
\* answered 502 with the provider's message, never with a result.
C10_FindingFailureIs502 ==
  \A r \in Reqs :
    (/\ rev \in {"srv3", "p3", "p2"} /\ Answered(req[r])
     /\ req[r].finding.kind = "http" /\ AckOf(req[r].finding) # "Success")
      => /\ req[r].resp.status = 502
         /\ req[r].resp.detail.info = MessageOf(req[r].finding)

\* C11: a /api/sold request with a non-empty title and a limit in 1..50 that
\* is answered with a result holds at most limit items in it, whether Browse
\* or Finding produced it and however many items that upstream returned.
C11_AtMostLimitItems ==
  \A r \in Reqs :
    (/\ Answered(req[r]) /\ req[r].resp.status = 200
     /\ req[r].limit \in DOMAIN Numbers /\ Numbers[req[r].limit] \in 1..50)
      => req[r].items <= Numbers[req[r].limit]

\* The part of C12 that holds of every call of axiosGetWithBackoff: at most
\* 3 requests, a retry only after a rate-limit response to a Finding call, 1 s
\* slept before the second request and 2 s before the third, no sleep after
\* the third, and every other response returned as soon as it arrives.
RetriesOnlyRateLimit ==
  /\ backoff.requests <= 3
  /\ backoff.requests = Len(backoff.slept) + (IF backoff.pc = "idle" THEN 0 ELSE 1)
  /\ \A i \in 1..Len(backoff.slept) : backoff.slept[i] = 1000 * (2 ^ (i - 1))
  /\ backoff.pc = "sleeping" => Len(backoff.got) < 3
  /\ \A i \in 1..Len(backoff.got) :
       IF backoff.got[i] = "limit" /\ backoff.finding
       THEN i = 3 => backoff.pc = "returned" /\ backoff.result.kind = "limited"
       ELSE i = Len(backoff.got) /\ backoff.pc \in {"returned", "thrown"}
  /\ ~backoff.finding => backoff.requests <= 1

\* C12 as stated: the above, and every call that ends ends by returning a
\* response object.
C12_AlwaysReturnsResponse ==
  /\ RetriesOnlyRateLimit
  /\ backoff.pc # "thrown"
  /\ backoff.pc = "returned" => backoff.result.kind \in {"resp", "limited"}

\* C12 amended: the above, and a call ends by returning a response object
\* unless axios.get rejects; a rejection is not retried and leaves the call
\* at once as an exception.
C12_ReturnsUnlessRejected ==
  /\ RetriesOnlyRateLimit
  /\ backoff.pc = "returned"
       => backoff.result.kind \in {"resp", "limited"} /\ backoff.got[Len(backoff.got)] # "reject"
  /\ backoff.pc = "thrown" => backoff.got[Len(backoff.got)] = "reject"
  /\ \A i \in 1..Len(backoff.got) :
       backoff.got[i] = "reject" => i = Len(backoff.got) /\ backoff.pc = "thrown"

C12_Witness ==
  /\ backoff.pc = "returned" /\ backoff.requests = 3 /\ backoff.slept = <<1000, 2000>>
  /\ backoff.result = [kind |-> "limited", status |-> 429]

\* A failure of the authentication class: the credential exchange failed, or
\* Browse answered 401 or 403 or with an invalid-client text.
AuthClassFailure(q) ==
  \/ TokenFailed(q)
  \/ /\ q.browse.kind = "fail"
     /\ q.browse.status \in {401, 403} \/ Fragments(q.browse.body) \cap AuthTexts # {}

\* C13: within one /api/sold request of srv3 or p3, the credential exchange,
\* the Browse call and the Finding call are each made at most once; Finding is
\* called only after a failure of the authentication class or when
\* mode=finding was asked for; every other failure ends the request with an
\* error response.
C13_EachCallAtMostOnce ==
  \A r \in Reqs :
    rev \in CachedRevs
      => /\ req[r].calls.token <= 1 /\ req[r].calls.browse <= 1 /\ req[r].calls.finding <= 1
         /\ req[r].calls.finding = 1
              => ToLowerCase(req[r].mode) = "finding" \/ AuthClassFailure(req[r])
         /\ (req[r].browse.kind \in {"fail", "network"} /\ ~AuthClassFailure(req[r]))
              => Answered(req[r]) /\ req[r].resp.status >= 400
         /\ (req[r].finding.kind = "network" \/
               (req[r].finding.kind = "http" /\ AckOf(req[r].finding) # "Success"))
              => Answered(req[r]) /\ req[r].resp.status >= 400

\* C18: a /api/sold request that needs an environment value that is missing
\* (EBAY_APP_ID for the Finding call, EBAY_OAUTH_TOKEN for mode=browse) is
\* answered 500.
C18_MissingConfigIs500 ==
  \A r \in Reqs :
    (/\ Answered(req[r])
     /\ \/ rev = "srv1" /\ EBAY_APP_ID = "" /\ ~NoTitleGiven(TitleOf(req[r].title))
        \/ /\ rev = "p3" /\ EBAY_APP_ID = "" /\ ToLowerCase(req[r].mode) = "finding"
           /\ ~BlankTitle(TitleOf(req[r].title))
        \/ rev \in CachedRevs /\ EBAY_APP_ID = "" /\ BrowseFailed(req[r], 401)
        \/ /\ rev = "p2" /\ EBAY_OAUTH_TOKEN = "" /\ req[r].mode = "browse"
           /\ ~BlankTitle(TitleOf(req[r].title)))
      => req[r].resp.status = 500

\* C19: in srv3 and p3, a /api/sold request that is answered without a result
\* gets a status in 400..599 and a body with both an error and a detail field.
C19_ErrorAndDetail ==
  \A r \in Reqs :
    (rev \in CachedRevs /\ Answered(req[r]) /\ req[r].resp.status # 200)
      => /\ req[r].resp.status \in 400..599
         /\ {"error", "detail"} \subseteq req[r].resp.fields

\* The inputs in which the two challenges differ
Differing ==
  {i \in Inputs : Changed(pair[1], i, <<>>) # Changed(pair[2], i, <<>>)}

Notified == hook.n > 0

\* C15: on a server with verification token and endpoint URL configured, a GET
\* to /ebay/account-deletion with a challenge_code is answered 200 with the
\* body { challengeResponse: digest of the three values }.
C15_ChallengeAnswered ==
  (/\ rev \in {"srv3", "p1", "p3"}
   /\ EBAY_DELETION_VERIFICATION_TOKEN # NoText /\ EBAY_DELETION_ENDPOINT_URL # NoText
   /\ hook.method = "GET" /\ hook.code # NoText)
    => /\ hook.resp.status = 200
       /\ hook.resp.fields = {"challengeResponse"}
       /\ hook.resp.digest = HexDigest(hook.code \o EBAY_DELETION_VERIFICATION_TOKEN
                                                 \o EBAY_DELETION_ENDPOINT_URL)

\* C16: in srv1, srv3, p3 and p4, a notification POST is answered 200 and its
\* entry is stored: a GET /api/deletion-notifications that follows it, before
\* any other POST, is answered 200 with a list that holds the entry.
C16_NotificationStored ==
  (rev \in {"srv1", "srv3", "p3", "p4"} /\ Notified)
    => /\ hook.resp.status = 200
       /\ \E i \in 1..Len(recentDeletionNotifications) :
            recentDeletionNotifications[i].n = hook.n
       /\ (listing.status # 0 /\ listing.at = hook.n)
            => /\ listing.status = 200
               /\ \E i \in 1..Len(listing.items) : listing.items[i].n = hook.n

\* C17: in srv3 and p3, recentDeletionNotifications holds at most 50 entries,
\* namely the notifications received last, newest first, and the count that
\* GET /api/deletion-notifications reports is the number of items it returns.
C17_Last50NewestFirst ==
  rev \in {"srv3", "p3"}
    => /\ Len(recentDeletionNotifications) = (IF posted <= 50 THEN posted ELSE 50)
       /\ \A i \in 1..Len(recentDeletionNotifications) :
            recentDeletionNotifications[i].n = posted + 1 - i
       /\ listing.status # 0
            => /\ listing.status = 200 /\ listing.counted
               /\ listing.count = Len(listing.items)
               /\ listing.at <= 50 => listing.count = listing.at

C17_Witness ==
  /\ rev \in {"srv3", "p3"} /\ posted = 51
  /\ Len(recentDeletionNotifications) = 50
  /\ recentDeletionNotifications[1].n = 51 /\ recentDeletionNotifications[50].n = 2
  /\ listing.at = 51 /\ listing.count = 50

\* The handler of request r waits for an upstream
Waiting(r) == req[r].pc \in {"token_wait", "browse_wait", "finding_wait"}

\* C20: in srv3 and p3, every /api/sold request that waits for the token
\* endpoint or a search upstream is eventually answered, whether or not the
\* upstream ever responds.
C20_EventuallyAnswered ==
  \A r \in Reqs : (rev \in CachedRevs /\ Waiting(r)) ~> Answered(req[r])

\* C21: the limit sent to an upstream is at most 50, it is the requested limit
\* when that is in 1..50, and it is 10 when the requested limit is missing,
\* zero or not a number.
C21_LimitClamped ==
  \A i \in 1..Len(forwarded) :
    LET f == forwarded[i] IN
    /\ f.asked <= 50
    /\ (f.limit \in DOMAIN Numbers /\ Numbers[f.limit] \in 1..50) => f.asked = Numbers[f.limit]
    /\ (f.limit = NoLimit \/ f.limit \notin DOMAIN Numbers \/ f.limit = "0") => f.asked = 10

\* Caller c resumes from its exchange
Resumes(c) == caller[c].pc = "token_wait" /\ caller'[c].pc = "done"

\* C22: tokenCache is empty until the first successful exchange; a call of
\* getAppToken starts an exchange exactly when it finds no token or the
\* cached expiry passed; only a successful exchange writes the cache, and a
\* failed one leaves token and expiry as they were.
C22_CacheWrittenOnExpiry ==
  /\ [](issued = <<>> => tokenCache = [token |-> 0, expiresAt |-> 0])
  /\ [][\A c \in Callers :
          /\ Enters(c) => (caller'[c].pc = "token_wait"
                             <=> (tokenCache.token = 0 \/ clock >= tokenCache.expiresAt))
          /\ Resumes(c) => IF caller'[c].status = 200
                            THEN tokenCache' # tokenCache /\ tokenCache'.token = Len(issued')
                            ELSE tokenCache' = tokenCache]_vars
  /\ [][tokenCache' # tokenCache
          => \E c \in Callers : Resumes(c) /\ caller'[c].status = 200]_vars

C22_Witness ==
  /\ Len(issued) = 2 /\ tokenCache.token = 2 /\ clock >= 900
  /\ \E c \in Callers : caller[c].pc = "done" /\ caller[c].status = 502

\* C28: under every interleaving of getAppToken calls, token and expiresAt of
\* tokenCache come from one exchange, the one that completed last: the expiry
\* is the one computed from the now and the expires_in of the exchange that
\* issued the cached token, and a caller that exchanged is handed the token
\* its own exchange issued.
C28_CacheFromOneExchange ==
  /\ [](tokenCache.token # 0
         => /\ tokenCache.token = Len(issued)
            /\ tokenCache.expiresAt = ExpiresAt(stored.now, stored.expires_in))
  /\ [][\A c \in Callers :
          (Resumes(c) /\ caller'[c].status = 200)
            => /\ issued' = Append(issued, c)
               /\ caller'[c].tok = Len(issued')
               /\ stored'.now = caller[c].now
               /\ tokenCache'.token = Len(issued')
               /\ \E e \in ExpiresIns :
                    tokenCache'.expiresAt = caller[c].now + e * 900 /\ stored'.expires_in = e]_vars

C28_Witness ==
  /\ Len(issued) = 3 /\ issued[3] # 3
  /\ tokenCache.token = 3 /\ tokenCache.expiresAt = 6480000 + 900
  /\ \A c \in Callers : caller[c].pc = "done" /\ caller[c].status = 200

\* The last /api/sold request of part_004 took the Finding path
OnFindingPath == sold4.pc # "idle" /\ Trim(sold4.title) # "" /\ sold4.mode # "browse"

\* C23: when all three attempts of a Finding call are rate-limited,
\* axiosGetWithBackoff returns status 429 and the /api/sold request is
\* answered 429 with the 'Rate limited' body, not 200 and not 500, and
\* nothing is served or stored for it.
C23_RateLimitIs429 ==
  (OnFindingPath /\ backoff.got = <<"limit", "limit", "limit">>)
    => /\ backoff.pc = "returned" /\ backoff.result = [kind |-> "limited", status |-> 429]
       /\ sold4.pc = "done" /\ sold4.gets = 3
       /\ sold4.resp = Resp4(429, "Rate limited", 0, "none")
       /\ soldCache[CacheKey(sold4.title, sold4.limit)] = sold4.found
            \/ sold4.found.expires < sold4.at

C23_Witness ==
  /\ OnFindingPath /\ backoff.got = <<"limit", "limit", "limit">>
  /\ sold4.resp.status = 429 /\ sold4.n = 2

\* The age at its lookup of the entry that a request found
AgeFound == sold4.at - (sold4.found.expires - SOLD_CACHE_TTL_MS)

\* C24: on the Finding path of part_004, a request whose key was stored less
\* than 15 minutes before is served from soldCache without an upstream
\* request; no entry is served once more than 15 minutes have passed since it
\* was stored; a lookup that finds an expired entry removes it.
C24_ServedWithinTtl ==
  /\ []((OnFindingPath /\ sold4.found # NoEntry /\ AgeFound < SOLD_CACHE_TTL_MS)
          => /\ sold4.pc = "done" /\ sold4.gets = 0
             /\ sold4.resp = Resp4(200, "itemSummaries", sold4.found.data.itemSummaries, "cache"))
  /\ [](sold4.resp.served = "cache"
          => /\ OnFindingPath /\ sold4.found # NoEntry /\ sold4.gets = 0
             /\ AgeFound <= SOLD_CACHE_TTL_MS)
  /\ [][(sold4'.n # sold4.n /\ OnFindingPath')
          => LET key == CacheKey(sold4'.title, sold4'.limit) IN
             (soldCache[key] # NoEntry /\ clock > soldCache[key].expires)
               => soldCache'[key] = NoEntry /\ sold4'.gets = 1]_vars

C24_Witness ==
  /\ sold4.resp.served = "cache" /\ sold4.gets = 0 /\ sold4.resp.items = 2
  /\ AgeFound = 899999

\* C27: soldCache only holds results built from a response that reported
\* success, and a request with mode=browse neither reads nor writes it.
C27_OnlySuccessCached ==
  /\ \A k \in CacheKeys : soldCache[k] # NoEntry => soldCache[k].data.ack = "Success"
  /\ sold4.resp.served = "cache" => sold4.found.data.ack = "Success"
  /\ sold4.mode = "browse" => sold4.found = NoEntry /\ sold4.resp.served # "cache"

\* Request q of p3 carries a title and mode=finding in some letter case
ForcedFinding(q) ==
  /\ rev = "p3" /\ q.pc # "idle" /\ ~BlankTitle(TitleOf(q.title))
  /\ q.mode \in {"finding", "FINDING"}

\* C26: in p3, a /api/sold request with mode=finding in any letter case goes
\* straight to the Finding API: no credential exchange, no Browse call, the
\* token cache untouched, and a result tagged 'finding'.
C26_ForcedFindingSkipsBrowse ==
  /\ [](\A r \in Reqs :
          ForcedFinding(req[r])
            => /\ req[r].calls.token = 0 /\ req[r].calls.browse = 0
               /\ req[r].token = "none" /\ req[r].browse = NoBrowse
               /\ EBAY_APP_ID # "" => req[r].calls.finding = 1
               /\ (Answered(req[r]) /\ req[r].resp.status = 200)
                    => req[r].resp.source = "finding")
  /\ [][\A r \in Reqs :
          (ForcedFinding(req'[r]) /\ req'[r] # req[r])
            => tokenCache' = tokenCache /\ issued' = issued]_vars

C26_Witness ==
  \E r \in Reqs :
    /\ ForcedFinding(req[r]) /\ req[r].mode = "FINDING"
    /\ Answered(req[r]) /\ req[r].resp.status = 200 /\ req[r].resp.source = "finding"
    /\ tokenCache.token # 0

\* C30: in srv3 and p3, a /api/sold handler that has ended has sent exactly
\* one response, and one that has not ended has sent none.
C30_ExactlyOneResponse ==
  \A r \in Reqs :
    rev \in CachedRevs
      => /\ req[r].sent <= 1
         /\ Answered(req[r]) <=> req[r].sent = 1
         /\ req[r].sent = 1 => req[r].resp.status # 0

C30_Witness ==
  \E r \in Reqs :
    /\ rev = "p3" /\ Answered(req[r]) /\ req[r].sent = 1
    /\ req[r].token = "fail" /\ req[r].calls.finding = 1
    /\ req[r].resp.status = 502

\* The entries of deletionNotifications that carry notificationId id
Records(id) ==
  {i \in 1..Len(recentDeletionNotifications) : recentDeletionNotifications[i].id = id}

\* C25: in p4, however often a notification with the same non-null
\* notificationId is delivered, one record of it is stored: a repeat is
\* answered 'duplicate' and leaves deletionNotifications and seenDeletionIds
\* as they were; a request with a challenge is echoed and never stored.
C25_OneRecordPerId ==
  /\ [](rev = "p4"
         => /\ \A id \in Ids \ {""} :
                 Cardinality(Records(id)) = (IF id \in seenDeletionIds THEN 1 ELSE 0)
            /\ (hook.method = "POST" /\ hook.challenge # NoText)
                 => /\ hook.resp.status = 200 /\ hook.resp.fields = {"challenge"}
                    /\ hook.resp.echo = {hook.challenge} /\ hook.n = 0)
  /\ [][(rev = "p4" /\ hook' # hook)
          => IF hook'.challenge # NoText
             THEN UNCHANGED <<recentDeletionNotifications, seenDeletionIds>>
             ELSE hook'.method = "POST" /\ hook'.id # ""
                  => IF hook'.id \in seenDeletionIds
                     THEN /\ hook'.resp.note = "duplicate"
                          /\ UNCHANGED <<recentDeletionNotifications, seenDeletionIds>>
                     ELSE /\ hook'.resp.note = "received"
                          /\ seenDeletionIds' = seenDeletionIds \cup {hook'.id}
                          /\ recentDeletionNotifications'
                               = Append(recentDeletionNotifications, Entry(hook'.n, hook'.id))]_vars

C25_Witness ==
  /\ rev = "p4" /\ posted = 2 /\ hook.id = "n1" /\ hook.resp.note = "duplicate"
  /\ Cardinality(Records("n1")) = 1 /\ seenDeletionIds = {"n1"}

\* C29: no response of /ebay/account-deletion carries the configured
\* verification token in clear, unless the caller sent that very value as its
\* challenge.
C29_TokenNeverEchoed ==
  (EBAY_DELETION_VERIFICATION_TOKEN # NoText
   /\ EBAY_DELETION_VERIFICATION_TOKEN \in hook.resp.echo)
    => EBAY_DELETION_VERIFICATION_TOKEN \in {hook.code, hook.challenge}

====
